---- MODULE Spec2Model ----
(***************************************************************************)
(* A model of pritunl's user.py: the certificate lifecycle of an identity  *)
(* (User.__init__, _initialize, _cert_request, _cert_create, _revoke,      *)
(* remove, rename) under the process-wide table _openssl_locks, and the    *)
(* one-time-passcode verification (verify_otp_code) with its shared        *)
(* used-code cache.                                                        *)
(*                                                                         *)
(* Spec     the lifecycle, NumThreads threads interleaved at every file,   *)
(*          lock and CA Engine operation.                                  *)
(* SeqSpec  the lifecycle run by one thread (calls in sequence).           *)
(* OtpSpec  verify_otp_code / generate_otp_secret against a clock.         *)
(***************************************************************************)
EXTENDS Integers, Sequences, FiniteSets, TLC

\* ------------------------------------------------------------- bounds
NumThreads == 2
NumUsers == 2
NumNames == 2
MaxOps == 3
MaxVerify == 3

\* ---------------------------------------------------- program constants
CA_CERT_ID == 0
CERT_CA == "ca"
CERT_SERVER == "server"
CERT_CLIENT == "client"

\* verify_otp_code: the length of a time window and the retention of a used
\* code, in seconds (lines 178 and 193).
WINDOW == 30
RETENTION == 120

StartTime == 4 * WINDOW

Threads == 1..NumThreads
UserIds == 1..NumUsers
Ids == {CA_CERT_ID} \cup UserIds
\* The key the constructor's id parameter contributes when it is None.
NoneKey == -1
Keys == Ids \cup {NoneKey}
Types == {CERT_CA, CERT_SERVER, CERT_CLIENT}
NoType == "none"
Names == 1..NumNames
NoName == 0
NoSecret == 0
Secrets == {1, 2}
\* os.urandom + sha512 rounds + b32encode: a secret other than the current one.
NewSecret(cur) == IF cur = 1 THEN 2 ELSE 1

\* The five derived files of an identity (reqs/<id>.csr, temp/<id>.conf,
\* keys/<id>.key, certs/<id>.crt, users/<id>.conf).
FileKinds == {"req", "conf", "key", "cert", "rec"}
SignedFiles == {"req", "key", "cert", "rec"}
\* What a remove that was cut short after line 374 (a killed process) leaves.
HalfRemovedFiles == {"cert", "rec"}

\* A lock object is identified by the key it was created for and the thread
\* whose constructor call created it (a thread inserts at most one lock per key).
LockObjs == Keys \X Threads
NoLk == <<NoneKey, 0>>

NoSelf == [id |-> NoneKey, arg |-> NoneKey, type |-> NoType, name |-> NoName, secret |-> NoSecret]
NoRec == [name |-> NoName, type |-> NoType, secret |-> NoSecret]

VARIABLES
    files,      \* files[i]: which of the five derived files of identity i exist
    recData,    \* recData[i]: content of the persisted record of i
    revoked,    \* the CA database: identities whose current certificate is revoked
    locks,      \* _openssl_locks: key -> creator of the lock object held under it (0: none)
    held,       \* held[l]: the thread that acquired lock object l (0: unlocked)
    pc,         \* pc[t]: position of thread t
    self,       \* self[t]: the User object thread t works on
    lk,         \* lk[t]: the lock object t looked up and is acquiring
    exc,        \* exc[t]: exception pending in a try block of t
    ret,        \* ret[t]: outcome of t's last call ("ok" or the exception raised)
    op,         \* op[t]: t's current or last call
    trace,      \* trace[t]: what t's current or last call did (history)
    known,      \* identity ids a caller can load by id
    created,    \* created[i]: outcome of the last initialize of i (history)
    removeRan,  \* removeRan[i]: a remove of i has been called (history)
    ops,        \* number of calls made so far
    now,        \* the clock, in seconds
    otpSecret,  \* the identity's otp_secret
    used,       \* the Used-Passcode Record: timestamp -> code
    vpc,        \* vpc[p]: position of process p inside verify_otp_code
    vloc,       \* vloc[p]: locals of p's verify_otp_code call
    accepted,   \* the accepted submissions, in order: <<code, time>> (history)
    lastVerify, \* lastVerify[p]: p's last verify_otp_code call and its result (history)
    nver,       \* number of verify_otp_code calls made so far
    inlineCerts,\* app_server.inline_certs
    servers,    \* org.get_servers(): the servers the organization exposes
    auser,      \* the identity build_key_archive is called on
    archive,    \* the members of the tar file at key_archive_path, in order
    apc,        \* position inside build_key_archive
    aidx,       \* index of the server the loop is at
    ovpn,       \* content of the temporary profile file (<<>>: no file)
    aret        \* outcome of build_key_archive

disk == <<files, recData, revoked>>
lockv == <<locks, held>>
thr == <<pc, self, lk, exc, ret, op, trace>>
hist == <<known, created, removeRan>>
otpv == <<now, otpSecret, used, vpc, vloc, accepted, lastVerify, nver>>
archv == <<inlineCerts, servers, auser, archive, apc, aidx, ovpn, aret>>
vars == <<files, recData, revoked, locks, held, pc, self, lk, exc, ret, op,
          trace, known, created, removeRan, ops, now, otpSecret, used, vpc,
          vloc, accepted, lastVerify, nver, inlineCerts, servers, auser,
          archive, apc, aidx, ovpn, aret>>

\* --------------------------------------------------------------- helpers
Id(t) == self[t].id
Has(i, f) == f \in files[i]
AddFile(i, f) == [files EXCEPT ![i] = @ \cup {f}]
DelFile(i, f) == [files EXCEPT ![i] = @ \ {f}]
Note(t, e) == [trace EXCEPT ![t] = @ \cup {e}]

\* The lock object _openssl_locks[key] names (NoLk: KeyError).
Lookup(key) == IF locks[key] = 0 THEN NoLk ELSE <<key, locks[key]>>

NoLoc == [code |-> -1, epoch |-> -1, secret |-> NoSecret, snap |-> <<>>]
NoVerify == [done |-> FALSE, code |-> -1, epoch |-> -1, secret |-> NoSecret,
             empty |-> FALSE, res |-> FALSE]

\* No verify_otp_code call yet, at clock t0.
OtpInit(t0) ==
    /\ now = t0
    /\ otpSecret = 1
    /\ used = <<>>
    /\ vpc = [p \in Threads |-> "idle"]
    /\ vloc = [p \in Threads |-> NoLoc]
    /\ accepted = <<>>
    /\ lastVerify = [p \in Threads |-> NoVerify]
    /\ nver = 0

\* The disk at process start, the identities of ex existing (created and signed
\* by an earlier run; those of half then half removed), and a process that has
\* constructed no User yet.
LifeInit(ex, half) ==
    /\ files = [i \in Ids |-> IF i \in half THEN HalfRemovedFiles
                              ELSE IF i \in ex THEN SignedFiles ELSE {}]
    /\ recData = [i \in Ids |->
          IF i \in ex
          THEN [name |-> 1, type |-> IF i = CA_CERT_ID THEN CERT_CA ELSE CERT_CLIENT,
                secret |-> 1]
          ELSE NoRec]
    /\ known = ex
    /\ created = [i \in Ids |-> IF i \in ex THEN "ok" ELSE "no"]
    /\ revoked = {}
    /\ locks = [k \in Keys |-> 0]
    /\ held = [l \in LockObjs |-> 0]
    /\ pc = [t \in Threads |-> "idle"]
    /\ self = [t \in Threads |-> NoSelf]
    /\ lk = [t \in Threads |-> NoLk]
    /\ exc = [t \in Threads |-> "none"]
    /\ ret = [t \in Threads |-> "none"]
    /\ op = [t \in Threads |-> "none"]
    /\ trace = [t \in Threads |-> {}]
    /\ removeRan = [i \in Ids |-> i \in half]
    /\ ops = 0

\* No build_key_archive call yet, in an organization exposing the servers
\* srv, with the application setting inline_certs = inl.
ArchInit(inl, srv) ==
    /\ inlineCerts = inl
    /\ servers = srv
    /\ auser = NoneKey
    /\ archive = <<>>
    /\ apc = "idle"
    /\ aidx = 0
    /\ ovpn = <<>>
    /\ aret = "none"

Init ==
    /\ \E ex \in SUBSET Ids : \E half \in SUBSET (ex \cap UserIds) : LifeInit(ex, half)
    /\ OtpInit(StartTime)
    /\ ArchInit(FALSE, <<>>)

\* ----------------------------------------------------------- constructor
CanCall(t) == pc[t] \in {"idle", "ready"} /\ ops < MaxOps

\* uuid.uuid4().hex: an id no identity has and no caller has referred to
\* (which of the unused ids it is does not matter: the least one).
UnusedIds == {u \in UserIds : u \notin known /\ files[u] = {}
                /\ \A t \in Threads : self[t].id # u}
FreshIds == {u \in UnusedIds : \A v \in UnusedIds : u <= v}

\* User(org, name=n, type=ty): lines 33-41 and the path set-up.
NewUser(t, ty, n) ==
    /\ CanCall(t)
    /\ \E i \in IF ty = CERT_CA THEN {CA_CERT_ID} ELSE FreshIds :
          self' = [self EXCEPT ![t] =
              [id |-> i, arg |-> NoneKey, type |-> ty, name |-> n, secret |-> NoSecret]]
    /\ pc' = [pc EXCEPT ![t] = "ctor_check"]
    /\ op' = [op EXCEPT ![t] = "new"]
    /\ ret' = [ret EXCEPT ![t] = "none"]
    /\ trace' = [trace EXCEPT ![t] = {}]
    /\ ops' = ops + 1
    /\ UNCHANGED <<disk, lockv, lk, exc, hist, otpv, archv>>

\* User(org, type=None): AttributeError, line 37.
NewUserNoType(t) ==
    /\ CanCall(t)
    /\ self' = [self EXCEPT ![t] = NoSelf]
    /\ pc' = [pc EXCEPT ![t] = "idle"]
    /\ op' = [op EXCEPT ![t] = "new"]
    /\ ret' = [ret EXCEPT ![t] = "AttributeError"]
    /\ trace' = [trace EXCEPT ![t] = {}]
    /\ ops' = ops + 1
    /\ UNCHANGED <<disk, lockv, lk, exc, hist, otpv, archv>>

\* User(org, id=i): line 43; the attributes come from the persisted record.
LoadUser(t, i) ==
    /\ CanCall(t)
    /\ i \in known \cup {CA_CERT_ID}
    /\ self' = [self EXCEPT ![t] =
          [id |-> i, arg |-> i, type |-> recData[i].type, name |-> recData[i].name,
           secret |-> recData[i].secret]]
    /\ pc' = [pc EXCEPT ![t] = "ctor_check"]
    /\ op' = [op EXCEPT ![t] = "load"]
    /\ ret' = [ret EXCEPT ![t] = "none"]
    /\ trace' = [trace EXCEPT ![t] = {}]
    /\ ops' = ops + 1
    /\ UNCHANGED <<disk, lockv, lk, exc, hist, otpv, archv>>

\* The key the constructor looks up and inserts under: the parameter id
\* (line 58), which is None for a newly created identity.
LockKey(t) == self[t].arg

\* Where the constructor goes after lines 58-59: _initialize when id is None.
AfterLockTable(t) == IF self[t].arg = NoneKey THEN "init_conf" ELSE "ready"

\* line 58: if id not in _openssl_locks
CtorCheck(t) ==
    /\ pc[t] = "ctor_check"
    /\ pc' = [pc EXCEPT ![t] =
          IF locks[LockKey(t)] = 0 THEN "ctor_insert" ELSE AfterLockTable(t)]
    /\ ret' = [ret EXCEPT ![t] =
          IF locks[LockKey(t)] # 0 /\ AfterLockTable(t) = "ready" THEN "ok" ELSE @]
    /\ UNCHANGED <<disk, lockv, self, lk, exc, op, trace, hist, ops, otpv, archv>>

\* line 59: _openssl_locks[id] = threading.Lock()
CtorInsert(t) ==
    /\ pc[t] = "ctor_insert"
    /\ locks' = [locks EXCEPT ![LockKey(t)] = t]
    /\ held' = [held EXCEPT ![<<LockKey(t), t>>] = 0]
    /\ pc' = [pc EXCEPT ![t] = AfterLockTable(t)]
    /\ ret' = [ret EXCEPT ![t] = IF AfterLockTable(t) = "ready" THEN "ok" ELSE @]
    /\ UNCHANGED <<disk, self, lk, exc, op, trace, hist, ops, otpv, archv>>

\* ------------------------------------------------------------ initialize
\* An exception leaves _initialize and the constructor: the caller gets no
\* object; the id can be found on disk from then on.
InitRaise(t, e) ==
    /\ pc' = [pc EXCEPT ![t] = "idle"]
    /\ ret' = [ret EXCEPT ![t] = e]
    /\ exc' = [exc EXCEPT ![t] = "none"]
    /\ lk' = [lk EXCEPT ![t] = NoLk]
    /\ self' = [self EXCEPT ![t] = NoSelf]
    /\ known' = known \cup {Id(t)}
    /\ created' = [created EXCEPT ![Id(t)] = "failed"]

\* _create_ssl_conf, lines 144-151 (called at line 91).
InitConf(t) ==
    /\ pc[t] = "init_conf"
    /\ files' = AddFile(Id(t), "conf")
    /\ pc' = [pc EXCEPT ![t] = "req_lookup"]
    /\ trace' = Note(t, "conf")
    /\ UNCHANGED <<recData, revoked, lockv, self, lk, exc, ret, op, hist, ops, otpv, archv>>

\* line 103: _openssl_locks[self.id] (KeyError when the table has no such key)
ReqLookup(t) ==
    /\ pc[t] = "req_lookup"
    /\ IF Lookup(Id(t)) = NoLk
       THEN /\ InitRaise(t, "KeyError")
            /\ UNCHANGED <<removeRan, trace>>
       ELSE /\ lk' = [lk EXCEPT ![t] = Lookup(Id(t))]
            /\ pc' = [pc EXCEPT ![t] = "req_acquire"]
            /\ UNCHANGED <<self, exc, ret, hist, trace>>
    /\ UNCHANGED <<disk, lockv, op, ops, otpv, archv>>

\* line 103: .acquire() blocks until the lock object is unlocked; the
\* openssl req process is then started (lines 105-113).
ReqAcquire(t) ==
    /\ pc[t] = "req_acquire"
    /\ held[lk[t]] = 0
    /\ held' = [held EXCEPT ![lk[t]] = t]
    /\ pc' = [pc EXCEPT ![t] = "req_engine"]
    /\ trace' = [trace EXCEPT ![t] = @ \cup {"lock", "engine"}]
    /\ UNCHANGED <<disk, locks, self, lk, exc, ret, op, hist, ops, otpv, archv>>

\* The exit statuses of the CA Engine process.
ExitCodes == {0, 1}

\* openssl req can succeed only if it can read the signing-config.
ReqCanExit(i, rc) == rc = 0 => Has(i, "conf")

\* lines 112-119: the openssl req process ends; on success the request and the
\* private key are on disk, otherwise CalledProcessError is logged and re-raised.
ReqEngine(t, rc) ==
    /\ pc[t] = "req_engine"
    /\ ReqCanExit(Id(t), rc)
    /\ files' = IF rc = 0 THEN [files EXCEPT ![Id(t)] = @ \cup {"req", "key"}] ELSE files
    /\ exc' = [exc EXCEPT ![t] = IF rc = 0 THEN "none" ELSE "CalledProcessError"]
    /\ pc' = [pc EXCEPT ![t] = "req_release"]
    /\ UNCHANGED <<recData, revoked, lockv, self, lk, ret, op, trace, hist, ops, otpv, archv>>

\* The CalledProcessError handler of line 114 not re-raising (line 119 left
\* out): _cert_request returns and _initialize goes on.
ReqReleaseSwallowing(t) ==
    /\ pc[t] = "req_release"
    /\ IF held[Lookup(Id(t))] = 0
       THEN /\ InitRaise(t, "ThreadError")
            /\ UNCHANGED held
       ELSE /\ held' = [held EXCEPT ![Lookup(Id(t))] = 0]
            /\ pc' = [pc EXCEPT ![t] = "req_chmod"]
            /\ lk' = [lk EXCEPT ![t] = NoLk]
            /\ exc' = [exc EXCEPT ![t] = "none"]
            /\ UNCHANGED <<self, ret, known, created>>
    /\ UNCHANGED <<disk, locks, op, trace, removeRan, ops, otpv, archv>>

\* lines 120-121: finally: _openssl_locks[self.id].release(). Releasing an
\* unlocked lock raises thread.error, which replaces a pending exception.
ReqRelease(t) ==
    /\ pc[t] = "req_release"
    /\ IF held[Lookup(Id(t))] = 0
       THEN /\ InitRaise(t, "ThreadError")
            /\ UNCHANGED held
       ELSE /\ held' = [held EXCEPT ![Lookup(Id(t))] = 0]
            /\ IF exc[t] # "none"
               THEN InitRaise(t, exc[t])
               ELSE /\ pc' = [pc EXCEPT ![t] = "req_chmod"]
                    /\ lk' = [lk EXCEPT ![t] = NoLk]
                    /\ UNCHANGED <<self, exc, ret, known, created>>
    /\ UNCHANGED <<disk, locks, op, trace, removeRan, ops, otpv, archv>>

\* line 122: os.chmod(self.key_path, 0600)
ReqChmod(t) ==
    /\ pc[t] = "req_chmod"
    /\ IF Has(Id(t), "key")
       THEN /\ pc' = [pc EXCEPT ![t] = "init_commit"]
            /\ UNCHANGED <<self, lk, exc, ret, known, created>>
       ELSE InitRaise(t, "OSError")
    /\ UNCHANGED <<disk, lockv, op, trace, removeRan, ops, otpv, archv>>

\* lines 93-94: _generate_otp_secret(); commit(). The openssl ca process of
\* _cert_create is started next (lines 126-136), outside the lock.
InitCommit(t) ==
    /\ pc[t] = "init_commit"
    /\ self' = [self EXCEPT ![t].secret = NewSecret(@)]
    /\ files' = AddFile(Id(t), "rec")
    /\ recData' = [recData EXCEPT ![Id(t)] =
            [name |-> self[t].name, type |-> self[t].type,
             secret |-> NewSecret(self[t].secret)]]
    /\ known' = known \cup {Id(t)}
    /\ pc' = [pc EXCEPT ![t] = "sign_engine"]
    /\ trace' = [trace EXCEPT ![t] = @ \cup {"otp", "commit", "engine"}]
    /\ UNCHANGED <<revoked, lockv, lk, exc, ret, op, created, removeRan, ops, otpv, archv>>

\* openssl ca can sign only if it can read the signing-config and the request.
SignCanExit(i, rc) == rc = 0 => (Has(i, "conf") /\ Has(i, "req"))

\* lines 135-142: the openssl ca process ends; on success the certificate is
\* on disk (a new, unrevoked one), otherwise CalledProcessError is re-raised.
SignEngine(t, rc) ==
    /\ pc[t] = "sign_engine"
    /\ SignCanExit(Id(t), rc)
    /\ IF rc = 0
       THEN /\ files' = AddFile(Id(t), "cert")
            /\ revoked' = revoked \ {Id(t)}
            /\ pc' = [pc EXCEPT ![t] = "init_delconf"]
            /\ UNCHANGED <<self, lk, exc, ret, known, created>>
       ELSE /\ InitRaise(t, "CalledProcessError")
            /\ UNCHANGED <<files, revoked>>
    /\ UNCHANGED <<recData, lockv, op, trace, removeRan, ops, otpv, archv>>

\* os.remove(self.cert_path) in place of self.ssl_conf_path.
DeletesCertInstead == "cert"

\* line 154: the file _delete_ssl_conf removes, self.ssl_conf_path.
DeletedBySslConfDelete == "conf"

\* _delete_ssl_conf, lines 153-154 (called at line 96): os.remove raises
\* OSError when the file is not there.
InitDelConf(t) ==
    /\ pc[t] = "init_delconf"
    /\ IF Has(Id(t), DeletedBySslConfDelete)
       THEN /\ files' = DelFile(Id(t), DeletedBySslConfDelete)
            /\ pc' = [pc EXCEPT ![t] = "init_notify"]
            /\ UNCHANGED <<self, lk, exc, ret, known, created>>
       ELSE /\ InitRaise(t, "OSError")
            /\ UNCHANGED files
    /\ UNCHANGED <<recData, revoked, lockv, op, trace, removeRan, ops, otpv, archv>>

\* lines 97-100: the audit entry (CLIENT only) and the two events; the
\* constructor returns the object.
InitNotify(t) ==
    /\ pc[t] = "init_notify"
    /\ trace' = [trace EXCEPT ![t] =
          @ \cup {"event"} \cup (IF self[t].type = CERT_CLIENT THEN {"log"} ELSE {})]
    /\ pc' = [pc EXCEPT ![t] = "ready"]
    /\ ret' = [ret EXCEPT ![t] = "ok"]
    /\ created' = [created EXCEPT ![Id(t)] = "ok"]
    /\ known' = known \cup {Id(t)}
    /\ UNCHANGED <<disk, lockv, self, lk, exc, op, removeRan, ops, otpv, archv>>

\* ---------------------------------------------------------------- revoke
\* An exception leaves a method called on a constructed object.
MethodRaise(t, e) ==
    /\ pc' = [pc EXCEPT ![t] = "ready"]
    /\ ret' = [ret EXCEPT ![t] = e]
    /\ exc' = [exc EXCEPT ![t] = "none"]
    /\ lk' = [lk EXCEPT ![t] = NoLk]

\* _revoke returns normally: to its caller when called on its own, to line 358
\* of remove otherwise.
RevokeReturn(t) ==
    /\ pc' = [pc EXCEPT ![t] = IF op[t] = "remove" THEN "rm_req" ELSE "ready"]
    /\ ret' = [ret EXCEPT ![t] = IF op[t] = "remove" THEN @ ELSE "ok"]
    /\ exc' = [exc EXCEPT ![t] = "none"]
    /\ lk' = [lk EXCEPT ![t] = NoLk]

\* The guard of line 203 left out.
NeverCaSentinel(i) == FALSE

\* lines 203-204: revoking the CA sentinel raises TypeError.
IsCaSentinel(i) == i = CA_CERT_ID

\* The entry of _revoke(reason), lines 202-204.
RevokeEntry(t, o) ==
    /\ pc[t] = "ready"
    /\ ops < MaxOps
    /\ op' = [op EXCEPT ![t] = o]
    /\ ops' = ops + 1
    /\ exc' = [exc EXCEPT ![t] = "none"]
    /\ lk' = [lk EXCEPT ![t] = NoLk]
    /\ IF IsCaSentinel(Id(t))
       THEN /\ pc' = [pc EXCEPT ![t] = "ready"]
            /\ ret' = [ret EXCEPT ![t] = "TypeError"]
       ELSE /\ pc' = [pc EXCEPT ![t] = "rev_isfile"]
            /\ ret' = [ret EXCEPT ![t] = "none"]

\* user._revoke(reason)
CallRevoke(t) ==
    /\ RevokeEntry(t, "revoke")
    /\ trace' = [trace EXCEPT ![t] = {}]
    /\ UNCHANGED <<disk, lockv, self, hist, otpv, archv>>

\* user.remove(reason), lines 353-356: clear_cache, capture name and type
\* (they stay in self[t], which no other thread writes), call _revoke.
CallRemove(t) ==
    /\ RevokeEntry(t, "remove")
    /\ trace' = [trace EXCEPT ![t] = {"clear_cache"}]
    /\ removeRan' = [removeRan EXCEPT ![Id(t)] = TRUE]
    /\ UNCHANGED <<disk, lockv, self, known, created, otpv, archv>>

\* The check of line 206 left out.
NoCertFileIgnored(i) == FALSE

\* line 206: not os.path.isfile(self.cert_path)
NoCertFile(i) == ~Has(i, "cert")

\* lines 206-211: no certificate file: warn and return.
RevIsFile(t) ==
    /\ pc[t] = "rev_isfile"
    /\ IF NoCertFile(Id(t))
       THEN /\ RevokeReturn(t)
            /\ trace' = Note(t, "skip")
       ELSE /\ pc' = [pc EXCEPT ![t] = "rev_lookup"]
            /\ UNCHANGED <<ret, exc, lk, trace>>
    /\ UNCHANGED <<disk, lockv, self, op, hist, ops, otpv, archv>>

\* line 213: _openssl_locks[self.id]
RevLookup(t) ==
    /\ pc[t] = "rev_lookup"
    /\ IF Lookup(Id(t)) = NoLk
       THEN MethodRaise(t, "KeyError")
       ELSE /\ lk' = [lk EXCEPT ![t] = Lookup(Id(t))]
            /\ pc' = [pc EXCEPT ![t] = "rev_acquire"]
            /\ UNCHANGED <<ret, exc>>
    /\ UNCHANGED <<disk, lockv, self, op, trace, hist, ops, otpv, archv>>

\* line 213: .acquire() blocks until the lock object is unlocked.
RevAcquire(t) ==
    /\ pc[t] = "rev_acquire"
    /\ held[lk[t]] = 0
    /\ held' = [held EXCEPT ![lk[t]] = t]
    /\ pc' = [pc EXCEPT ![t] = "rev_conf"]
    /\ trace' = Note(t, "lock")
    /\ UNCHANGED <<disk, locks, self, lk, exc, ret, op, hist, ops, otpv, archv>>

\* line 215: _create_ssl_conf(); the openssl ca -revoke process is started
\* (lines 216-222).
RevConf(t) ==
    /\ pc[t] = "rev_conf"
    /\ files' = AddFile(Id(t), "conf")
    /\ pc' = [pc EXCEPT ![t] = "rev_engine"]
    /\ trace' = [trace EXCEPT ![t] = @ \cup {"conf", "engine"}]
    /\ UNCHANGED <<recData, revoked, lockv, self, lk, exc, ret, op, hist, ops, otpv, archv>>

\* What openssl ca -revoke can answer: exit 0 for a certificate it can read and
\* has not revoked; 'ERROR:Already revoked' (non-zero) for one it has revoked;
\* any other failure (non-zero) at any time.
RevokeCanExit(i, rc, already) ==
    /\ rc = 0 => (~already /\ Has(i, "conf") /\ Has(i, "cert") /\ i \notin revoked)
    /\ already => (rc # 0 /\ Has(i, "conf") /\ Has(i, "cert") /\ i \in revoked)

\* Every non-zero exit fatal: the test of line 226 left out.
RevokeFailsStrict(rc, already) == rc # 0

\* lines 224-227: a non-zero exit is fatal unless stderr says 'Already revoked'.
RevokeFails(rc, already) == rc # 0 /\ ~already

\* lines 223-227: the process ends.
RevEngine(t, rc, already) ==
    /\ pc[t] = "rev_engine"
    /\ RevokeCanExit(Id(t), rc, already)
    /\ revoked' = IF rc = 0 THEN revoked \cup {Id(t)} ELSE revoked
    /\ IF RevokeFails(rc, already)
       THEN /\ exc' = [exc EXCEPT ![t] = "CalledProcessError"]
            /\ pc' = [pc EXCEPT ![t] = "rev_release"]
       ELSE /\ exc' = exc
            /\ pc' = [pc EXCEPT ![t] = "rev_delconf"]
    /\ trace' = Note(t, IF rc = 0 THEN "engine_ok"
                        ELSE IF already THEN "engine_already" ELSE "engine_error")
    /\ UNCHANGED <<files, recData, lockv, self, lk, ret, op, hist, ops, otpv, archv>>

\* line 228: _delete_ssl_conf(); an OSError is not caught by line 229.
RevDelConf(t) ==
    /\ pc[t] = "rev_delconf"
    /\ IF Has(Id(t), DeletedBySslConfDelete)
       THEN /\ files' = DelFile(Id(t), DeletedBySslConfDelete)
            /\ exc' = exc
       ELSE /\ files' = files
            /\ exc' = [exc EXCEPT ![t] = "OSError"]
    /\ pc' = [pc EXCEPT ![t] = "rev_release"]
    /\ UNCHANGED <<recData, revoked, lockv, self, lk, ret, op, trace, hist, ops, otpv, archv>>

\* lines 235-236: finally: _openssl_locks[self.id].release(); then the pending
\* exception, if any, goes to the caller.
RevRelease(t) ==
    /\ pc[t] = "rev_release"
    /\ IF held[Lookup(Id(t))] = 0
       THEN /\ MethodRaise(t, "ThreadError")
            /\ UNCHANGED held
       ELSE /\ held' = [held EXCEPT ![Lookup(Id(t))] = 0]
            /\ IF exc[t] # "none"
               THEN MethodRaise(t, exc[t])
               ELSE /\ pc' = [pc EXCEPT ![t] = "rev_crl"]
                    /\ lk' = [lk EXCEPT ![t] = NoLk]
                    /\ UNCHANGED <<ret, exc>>
    /\ UNCHANGED <<disk, locks, self, op, trace, hist, ops, otpv, archv>>

\* line 237: self.org.generate_crl()
RevCrl(t) ==
    /\ pc[t] = "rev_crl"
    /\ RevokeReturn(t)
    /\ trace' = Note(t, "crl")
    /\ UNCHANGED <<disk, lockv, self, op, hist, ops, otpv, archv>>

\* ---------------------------------------------------------------- remove
\* try: os.remove(path) except OSError: the file is gone afterwards whether or
\* not it was there.
TryRemove(i, f) == DelFile(i, f)

\* The history entry of an os.remove that found no file (an OSError caught).
Missing(f) == [req |-> "no_req", conf |-> "no_conf", key |-> "no_key",
               cert |-> "no_cert", rec |-> "no_rec"][f]

\* One try/except block of remove: the OSError of a missing file is caught,
\* and the next block runs.
RemoveStep(t, here, f, next) ==
    /\ pc[t] = here
    /\ files' = TryRemove(Id(t), f)
    /\ pc' = [pc EXCEPT ![t] = next]
    /\ trace' = [trace EXCEPT ![t] =
          @ \cup {f} \cup (IF Has(Id(t), f) THEN {} ELSE {Missing(f)})]
    /\ UNCHANGED <<recData, revoked, lockv, self, lk, exc, ret, op, hist, ops, otpv, archv>>

\* lines 358-366
RmReq(t) == RemoveStep(t, "rm_req", "req", "rm_conf")
\* lines 368-371
RmConf(t) == RemoveStep(t, "rm_conf", "conf", "rm_key")
\* The OSError of a missing key file not caught: it leaves remove.
RmKeyUncaught(t) ==
    /\ pc[t] = "rm_key"
    /\ IF Has(Id(t), "key")
       THEN /\ files' = DelFile(Id(t), "key")
            /\ pc' = [pc EXCEPT ![t] = "rm_cert"]
            /\ trace' = Note(t, "key")
            /\ UNCHANGED <<ret, exc, lk>>
       ELSE /\ MethodRaise(t, "OSError")
            /\ UNCHANGED <<files, trace>>
    /\ UNCHANGED <<recData, revoked, lockv, self, op, hist, ops, otpv, archv>>

\* lines 373-381
RmKey(t) == RemoveStep(t, "rm_key", "key", "rm_cert")
\* lines 383-391
RmCert(t) == RemoveStep(t, "rm_cert", "cert", "rm_rec")
\* lines 393-401
RmRec(t) == RemoveStep(t, "rm_rec", "rec", "rm_notify")

\* lines 403-405: the event, and the audit entry for a CLIENT.
RmNotify(t) ==
    /\ pc[t] = "rm_notify"
    /\ trace' = [trace EXCEPT ![t] =
          @ \cup {"event"} \cup (IF self[t].type = CERT_CLIENT THEN {"log"} ELSE {})]
    /\ pc' = [pc EXCEPT ![t] = "ready"]
    /\ ret' = [ret EXCEPT ![t] = "ok"]
    /\ UNCHANGED <<disk, lockv, self, lk, exc, op, hist, ops, otpv, archv>>

\* ---------------------------------------------------------------- rename
\* A rename that also regenerates the OTP secret before it commits.
RenameRegenerating(t, n) ==
    /\ pc[t] = "ready"
    /\ ops < MaxOps
    /\ self' = [self EXCEPT ![t].name = n, ![t].secret = NewSecret(@)]
    /\ files' = AddFile(Id(t), "rec")
    /\ recData' = [recData EXCEPT ![Id(t)] =
            [name |-> n, type |-> self[t].type, secret |-> NewSecret(self[t].secret)]]
    /\ op' = [op EXCEPT ![t] = "rename"]
    /\ ret' = [ret EXCEPT ![t] = "ok"]
    /\ trace' = [trace EXCEPT ![t] = {"commit", "event"}]
    /\ ops' = ops + 1
    /\ UNCHANGED <<revoked, lockv, pc, lk, exc, hist, otpv, archv>>

\* lines 347-350: set the name, commit, emit USERS_UPDATED.
Rename(t, n) ==
    /\ pc[t] = "ready"
    /\ ops < MaxOps
    /\ self' = [self EXCEPT ![t].name = n]
    /\ files' = AddFile(Id(t), "rec")
    /\ recData' = [recData EXCEPT ![Id(t)] =
            [name |-> n, type |-> self[t].type, secret |-> self[t].secret]]
    /\ op' = [op EXCEPT ![t] = "rename"]
    /\ ret' = [ret EXCEPT ![t] = "ok"]
    /\ trace' = [trace EXCEPT ![t] = {"commit", "event"}]
    /\ ops' = ops + 1
    /\ UNCHANGED <<revoked, lockv, pc, lk, exc, hist, otpv, archv>>

\* ------------------------------------------------------------------ Spec
Step(t) ==
    \/ \E ty \in Types, n \in Names : NewUser(t, ty, n)
    \/ NewUserNoType(t)
    \/ \E i \in Ids : LoadUser(t, i)
    \/ CtorCheck(t)
    \/ CtorInsert(t)
    \/ InitConf(t)
    \/ ReqLookup(t)
    \/ ReqAcquire(t)
    \/ \E rc \in ExitCodes : ReqEngine(t, rc)
    \/ ReqRelease(t)
    \/ ReqChmod(t)
    \/ InitCommit(t)
    \/ \E rc \in ExitCodes : SignEngine(t, rc)
    \/ InitDelConf(t)
    \/ InitNotify(t)
    \/ CallRevoke(t)
    \/ CallRemove(t)
    \/ RevIsFile(t)
    \/ RevLookup(t)
    \/ RevAcquire(t)
    \/ RevConf(t)
    \/ \E rc \in ExitCodes, already \in BOOLEAN : RevEngine(t, rc, already)
    \/ RevDelConf(t)
    \/ RevRelease(t)
    \/ RevCrl(t)
    \/ RmReq(t)
    \/ RmConf(t)
    \/ RmKey(t)
    \/ RmCert(t)
    \/ RmRec(t)
    \/ RmNotify(t)
    \/ \E n \in Names : Rename(t, n)

Next == \E t \in Threads : Step(t)

Spec == Init /\ [][Next]_vars

\* One thread: the calls happen in sequence.
SeqNext == Step(1)

SeqSpec == Init /\ [][SeqNext]_vars

\* The state after every thread has constructed, one after the other, a User
\* for an existing signed identity (thread t for identity of[t]): the lock of
\* an identity is the one the first thread to load it inserted.
LoadedInit(of) ==
    /\ files = [i \in Ids |-> SignedFiles]
    /\ recData = [i \in Ids |->
          [name |-> 1, type |-> IF i = CA_CERT_ID THEN CERT_CA ELSE CERT_CLIENT,
           secret |-> 1]]
    /\ known = Ids
    /\ created = [i \in Ids |-> "ok"]
    /\ revoked = {}
    /\ locks = [k \in Keys |->
          IF \E t \in Threads : of[t] = k
          THEN CHOOSE t \in Threads : of[t] = k /\ \A u \in Threads : of[u] = k => t <= u
          ELSE 0]
    /\ held = [l \in LockObjs |-> 0]
    /\ pc = [t \in Threads |-> "ready"]
    /\ self = [t \in Threads |->
          [id |-> of[t], arg |-> of[t],
           type |-> IF of[t] = CA_CERT_ID THEN CERT_CA ELSE CERT_CLIENT,
           name |-> 1, secret |-> 1]]
    /\ lk = [t \in Threads |-> NoLk]
    /\ exc = [t \in Threads |-> "none"]
    /\ ret = [t \in Threads |-> "ok"]
    /\ op = [t \in Threads |-> "load"]
    /\ trace = [t \in Threads |-> {}]
    /\ removeRan = [i \in Ids |-> FALSE]
    /\ ops = 0

LoadedSpecInit ==
    /\ \E of \in [Threads -> Ids] : LoadedInit(of)
    /\ OtpInit(StartTime)
    /\ ArchInit(FALSE, <<>>)

\* The lifecycle calls of threads that each hold a User object already.
LoadedSpec == LoadedSpecInit /\ [][Next]_vars

\* ------------------------------------------------------------------- OTP
\* hmac.new(otp_secret, struct.pack('>q', counter), hashlib.sha1).digest(),
\* line 181: 20 bytes. SHA-1 is not computed here: the digest is a fixed
\* function of the secret and the counter that, like any function onto six
\* digits, gives some counters the same code (here those HmacPeriod apart).
HmacPeriod == 5
HmacByte(s, c, k) == (s * 37 + (c % HmacPeriod) * 101 + k * 53 + (c % HmacPeriod) * k * 7 + 11) % 256
HmacDigest(s, c) == [k \in 0..19 |-> HmacByte(s, c, k)]

\* lines 182-186: dynamic truncation. The low nibble of the last byte is the
\* offset of four bytes read big-endian, masked to 31 bits, modulo 10^6.
Truncate(d) ==
    LET offset == d[19] % 16
    IN  ((d[offset] % 128) * 16777216 + d[offset + 1] * 65536
            + d[offset + 2] * 256 + d[offset + 3]) % 1000000

\* The passcode of a counter: '%06d' of the truncated value, a six-digit
\* string, written as the number it spells.
Passcode(s, c) == Truncate(HmacDigest(s, c))

\* line 178: epoch = int(time.time() / 30)
Epoch(t) == t \div WINDOW

\* range(-1, 1): the window after the current one left out.
EpochOffsetsShort == {-1, 0}

\* line 179: for epoch_offset in range(-1, 2)
EpochOffsets == {-1, 0, 1}

\* lines 177-187: valid_codes
ValidCodes(s, t) == {Passcode(s, Epoch(t) + o) : o \in EpochOffsets}

\* line 193: int(time.time()) - int(auth_time) > 120
Expired(t, authTime) == t - authTime > RETENTION

\* The clock values the model samples: the second of the first call, the next
\* second, the next window, and the two sides of the retention limit.
Instants == {StartTime + d : d \in {0, 1, WINDOW, RETENTION, RETENTION + 1}}

Tick(t2) ==
    /\ t2 \in Instants
    /\ t2 > now
    /\ now' = t2
    /\ UNCHANGED <<disk, lockv, thr, hist, ops, archv, otpSecret, used, vpc, vloc, accepted,
                   lastVerify, nver>>

\* The codes a caller submits: those of the counters around the current one
\* under the current secret, and the current code of the other secret.
SubmittedCodes == {Passcode(otpSecret, Epoch(now) + o) : o \in -2..2}
                    \cup {Passcode(NewSecret(otpSecret), Epoch(now))}

\* cache_db.dict_set(key, field, value)
DictSet(d, k, v) == [x \in DOMAIN d \cup {k} |-> IF x = k THEN v ELSE d[x]]
\* cache_db.dict_remove(key, field), for a set of fields
DictRemove(d, ks) == [x \in DOMAIN d \ ks |-> d[x]]

\* lines 172-191: compute the candidates; a code that is none of them is
\* rejected, otherwise the used codes are read (dict_get_all).
VerifyRead(p, code) ==
    /\ vpc[p] = "idle"
    /\ nver < MaxVerify
    /\ nver' = nver + 1
    /\ IF code \notin ValidCodes(otpSecret, now)
       THEN /\ lastVerify' = [lastVerify EXCEPT ![p] =
                  [done |-> TRUE, code |-> code, epoch |-> Epoch(now),
                   secret |-> otpSecret, empty |-> used = <<>>, res |-> FALSE]]
            /\ UNCHANGED <<vpc, vloc>>
       ELSE /\ vpc' = [vpc EXCEPT ![p] = "loop"]
            /\ vloc' = [vloc EXCEPT ![p] =
                  [code |-> code, epoch |-> Epoch(now), secret |-> otpSecret, snap |-> used]]
            /\ lastVerify' = [lastVerify EXCEPT ![p] = NoVerify]
    /\ UNCHANGED <<disk, lockv, thr, hist, ops, archv, now, otpSecret, used, accepted>>

\* lines 192-196: the loop over the entries read, in the order a dict gives
\* them: each expired entry met is removed from the cache, and the first entry
\* met that holds the submitted code ends the call with False. hit is that
\* entry and before the entries met before it.
VerifyReject(p, hit, before) ==
    /\ vpc[p] = "loop"
    /\ hit \in DOMAIN vloc[p].snap
    /\ vloc[p].snap[hit] = vloc[p].code
    /\ before \subseteq {k \in DOMAIN vloc[p].snap : vloc[p].snap[k] # vloc[p].code}
    /\ used' = DictRemove(used, {k \in before \cup {hit} : Expired(now, k)})
    /\ vpc' = [vpc EXCEPT ![p] = "idle"]
    /\ vloc' = [vloc EXCEPT ![p] = NoLoc]
    /\ lastVerify' = [lastVerify EXCEPT ![p] =
          [done |-> TRUE, code |-> vloc[p].code, epoch |-> vloc[p].epoch,
           secret |-> vloc[p].secret, empty |-> vloc[p].snap = <<>>, res |-> FALSE]]
    /\ UNCHANGED <<disk, lockv, thr, hist, ops, archv, now, otpSecret, accepted, nver>>

\* lines 192-200: no entry read holds the submitted code: every expired entry
\* is removed, the code is stored under str(int(time.time())), True.
VerifyAccept(p) ==
    /\ vpc[p] = "loop"
    /\ \A k \in DOMAIN vloc[p].snap : vloc[p].snap[k] # vloc[p].code
    /\ used' = DictSet(DictRemove(used, {k \in DOMAIN vloc[p].snap : Expired(now, k)}),
                       now, vloc[p].code)
    /\ accepted' = Append(accepted, <<vloc[p].code, now>>)
    /\ vpc' = [vpc EXCEPT ![p] = "idle"]
    /\ vloc' = [vloc EXCEPT ![p] = NoLoc]
    /\ lastVerify' = [lastVerify EXCEPT ![p] =
          [done |-> TRUE, code |-> vloc[p].code, epoch |-> vloc[p].epoch,
           secret |-> vloc[p].secret, empty |-> vloc[p].snap = <<>>, res |-> TRUE]]
    /\ UNCHANGED <<disk, lockv, thr, hist, ops, archv, now, otpSecret, nver>>

\* generate_otp_secret, lines 166-169: a new secret, commit, USERS_UPDATED.
GenerateOtpSecret ==
    /\ otpSecret' = NewSecret(otpSecret)
    /\ UNCHANGED <<disk, lockv, thr, hist, ops, archv, now, used, vpc, vloc, accepted,
                   lastVerify, nver>>

OtpStep(p) ==
    \/ \E code \in SubmittedCodes : VerifyRead(p, code)
    \/ \E hit \in DOMAIN vloc[p].snap, before \in SUBSET (DOMAIN vloc[p].snap) :
          VerifyReject(p, hit, before)
    \/ VerifyAccept(p)

OtpNext ==
    \/ \E p \in Threads : OtpStep(p)
    \/ \E t2 \in Instants : Tick(t2)
    \/ GenerateOtpSecret

OtpSpecInit ==
    /\ LifeInit({}, {})
    /\ OtpInit(StartTime)
    /\ ArchInit(FALSE, <<>>)

\* Processes verifying concurrently.
OtpSpec == OtpSpecInit /\ [][OtpNext]_vars

OtpSeqNext ==
    \/ OtpStep(1)
    \/ \E t2 \in Instants : Tick(t2)
    \/ GenerateOtpSecret

\* One process: the verify_otp_code calls happen in sequence.
OtpSeqSpec == OtpSpecInit /\ [][OtpSeqNext]_vars

\* Processes verifying codes of one secret concurrently, the clock advancing.
OtpRaceNext ==
    \/ \E p \in Threads : OtpStep(p)
    \/ \E t2 \in Instants : Tick(t2)

OtpRaceSpec == OtpSpecInit /\ [][OtpRaceNext]_vars

\* ---------------------------------------------------------- key archive
MaxServers == 2
ServerNames == {1, 2}

\* A server of the organization: its name and whether it requires second-factor
\* auth; its id is its place in org.get_servers().
ServerRecs == [name : ServerNames, otp : BOOLEAN]
ServerLists == UNION {[1..n -> ServerRecs] : n \in 0..MaxServers}

\* One piece of a client profile text: the templated head, a directive, a
\* delimited block with the PEM text of a file, or a reference to a file by
\* name. of names the server or the identity the piece is about.
Piece(tag, i) == [tag |-> tag, of |-> i]

\* lines 287-290: OVPN_INLINE_CLIENT_CONF % (protocol, public_address, port)
InlineHead(k) == <<Piece("profile", k)>>

\* 'auth-user-pass' added whatever server.otp_auth says.
OtpDirectiveAlways(srv) == <<Piece("auth-user-pass", 0)>>

\* lines 292-293 (265-266): if server.otp_auth: client_conf += 'auth-user-pass\n'
OtpDirective(srv) == IF srv.otp THEN <<Piece("auth-user-pass", 0)>> ELSE <<>>

\* lines 295-300: the <ca>, <cert> and <key> blocks.
InlineBlocks(k, i) == <<Piece("<ca>", k), Piece("<cert>", i), Piece("<key>", i)>>

\* lines 287-300: the text of the inline profile of server k for identity i.
InlineConf(k, i) == InlineHead(k) \o OtpDirective(servers[k]) \o InlineBlocks(k, i)

\* lines 257-266: OVPN_CLIENT_CONF % (protocol, address, port, the three
\* archive names), then the directive.
SeparateConf(k, i) ==
    <<Piece("profile", k), Piece("ca_file", k), Piece("cert_file", i), Piece("key_file", i)>>
        \o OtpDirective(servers[k])

\* A member of the tar file: what it is, the names its arcname is made of
\* (org.name is fixed), and its content.
Member(kind, i, k, text) ==
    [kind |-> kind, user |-> recData[i].name,
     server |-> IF k = 0 THEN 0 ELSE servers[k].name, text |-> text]

\* build_key_archive leaves with exception e; the finally of line 272/307 has
\* closed the tar file.
ArchRaise(e) ==
    /\ apc' = "idle"
    /\ aret' = e

\* lines 313-316: build_key_archive dispatches on app_server.inline_certs.
ArchDispatch == IF inlineCerts THEN "in_loop" ELSE "sep_keycert"

\* user.build_key_archive(), lines 312-316, and tarfile.open(path, 'w'), line
\* 243/278: an empty archive.
BuildKeyArchive(i) ==
    /\ apc = "idle"
    /\ aret = "none"
    /\ i \in known
    /\ auser' = i
    /\ archive' = <<>>
    /\ aidx' = 1
    /\ apc' = ArchDispatch
    /\ UNCHANGED <<disk, lockv, thr, hist, ops, otpv, inlineCerts, servers, ovpn, aret>>

\* lines 280-304, one iteration up to the write of the temporary profile:
\* server.generate_ca_cert() (caOk: whether it succeeds), the profile text
\* with the certificate and the key read from disk, written to server_conf_path.
InlineWrite(caOk) ==
    /\ apc = "in_loop"
    /\ aidx <= Len(servers)
    /\ IF ~caOk THEN ArchRaise("Error") /\ UNCHANGED ovpn
       ELSE IF ~(Has(auser, "cert") /\ Has(auser, "key"))
       THEN ArchRaise("IOError") /\ UNCHANGED ovpn
       ELSE /\ ovpn' = InlineConf(aidx, auser)
            /\ apc' = "in_add"
            /\ aret' = aret
    /\ UNCHANGED <<disk, lockv, thr, hist, ops, otpv, inlineCerts, servers, auser,
                   archive, aidx>>

\* lines 305-306 (270-271): tar_file.add(server_conf_path, arcname=...);
\* os.remove(server_conf_path); the loop goes to the next server.
ArchAdd(here, loop) ==
    /\ apc = here
    /\ archive' = Append(archive, Member("ovpn", auser, aidx, ovpn))
    /\ ovpn' = <<>>
    /\ aidx' = aidx + 1
    /\ apc' = loop
    /\ UNCHANGED <<disk, lockv, thr, hist, ops, otpv, inlineCerts, servers, auser, aret>>

InlineAdd == ArchAdd("in_add", "in_loop")

\* lines 245-246: the key and the certificate of the identity are added.
SepKeyCert ==
    /\ apc = "sep_keycert"
    /\ IF Has(auser, "key") /\ Has(auser, "cert")
       THEN /\ archive' = archive \o <<Member("key", auser, 0, <<>>),
                                        Member("crt", auser, 0, <<>>)>>
            /\ apc' = "sep_loop"
            /\ aret' = aret
       ELSE /\ archive' = IF Has(auser, "key")
                          THEN Append(archive, Member("key", auser, 0, <<>>))
                          ELSE archive
            /\ ArchRaise("OSError")
    /\ UNCHANGED <<disk, lockv, thr, hist, ops, otpv, inlineCerts, servers, auser,
                   aidx, ovpn>>

\* lines 247-269, one iteration up to the write of the temporary profile:
\* generate_ca_cert, the server's CA certificate added, the profile written.
SepWrite(caOk) ==
    /\ apc = "sep_loop"
    /\ aidx <= Len(servers)
    /\ IF ~caOk
       THEN ArchRaise("Error") /\ UNCHANGED <<ovpn, archive>>
       ELSE /\ archive' = Append(archive, Member("ca_crt", auser, aidx, <<>>))
            /\ ovpn' = SeparateConf(aidx, auser)
            /\ apc' = "sep_add"
            /\ aret' = aret
    /\ UNCHANGED <<disk, lockv, thr, hist, ops, otpv, inlineCerts, servers, auser, aidx>>

SepAdd == ArchAdd("sep_add", "sep_loop")

\* lines 272-275 (307-310): the loop is over: tar_file.close(), return the path.
ArchReturn ==
    /\ apc \in {"in_loop", "sep_loop"}
    /\ aidx > Len(servers)
    /\ apc' = "idle"
    /\ aret' = "ok"
    /\ UNCHANGED <<disk, lockv, thr, hist, ops, otpv, inlineCerts, servers, auser,
                   archive, aidx, ovpn>>

ArchNext ==
    \/ \E i \in Ids : BuildKeyArchive(i)
    \/ \E caOk \in BOOLEAN : InlineWrite(caOk)
    \/ InlineAdd
    \/ SepKeyCert
    \/ \E caOk \in BOOLEAN : SepWrite(caOk)
    \/ SepAdd
    \/ ArchReturn

\* The CA and identity 1 (signed, or half removed) exist; any servers; either mode.
ArchSpecInit ==
    /\ \E half \in SUBSET {1} : LifeInit({CA_CERT_ID, 1}, half)
    /\ OtpInit(StartTime)
    /\ \E inl \in BOOLEAN, srv \in ServerLists : ArchInit(inl, srv)

ArchSpec == ArchSpecInit /\ [][ArchNext]_vars

\* ================================================================ claims
\* A CA Engine process (openssl req, openssl ca, openssl ca -revoke) of t is
\* running.
InEngine(t) == pc[t] \in {"req_engine", "sign_engine", "rev_engine"}

\* No call is in progress.
Quiescent == \A t \in Threads : pc[t] \in {"idle", "ready"}

\* C1: for every identity, at most one CA Engine invocation is in progress at
\* any time, whatever the interleaving of lifecycle operations.
C1_MutualExclusion ==
    \A i \in Ids : Cardinality({t \in Threads : InEngine(t) /\ Id(t) = i}) <= 1

\* C2: a code accepted once is not accepted again within 120 seconds of its
\* acceptance (calls in sequence, other valid codes in between, several calls
\* in one clock second).
C2_AcceptedAtMostOnce ==
    \A i, j \in DOMAIN accepted :
        (i < j /\ accepted[i][1] = accepted[j][1])
            => accepted[j][2] - accepted[i][2] > RETENTION

\* C3: with an empty Used-Passcode Record, verify_otp_code(code) is true
\* exactly when code is the passcode of the secret for counter epoch-1, epoch or
\* epoch+1, epoch = floor(now/30).
C3_WindowAcceptance ==
    \A p \in Threads :
        (lastVerify[p].done /\ lastVerify[p].empty)
            => (lastVerify[p].res <=>
                  \/ lastVerify[p].code = Passcode(lastVerify[p].secret, lastVerify[p].epoch - 1)
                  \/ lastVerify[p].code = Passcode(lastVerify[p].secret, lastVerify[p].epoch)
                  \/ lastVerify[p].code = Passcode(lastVerify[p].secret, lastVerify[p].epoch + 1))

\* A code of the next window was accepted against an empty record.
C3_Witness ==
    /\ lastVerify[1].done /\ lastVerify[1].empty /\ lastVerify[1].res
    /\ lastVerify[1].code = Passcode(lastVerify[1].secret, lastVerify[1].epoch + 1)
    /\ lastVerify[1].epoch = Epoch(now)

\* C4: whenever a lifecycle operation reaches the lock acquisition for
\* self.id, the Identity Lock Table holds a lock under that id.
C4_LockPresentAtAcquire ==
    \A t \in Threads : pc[t] \in {"req_lookup", "rev_lookup"} => locks[Id(t)] # 0

\* C5: a revoke of the CA sentinel, called directly or through remove, has
\* raised, and has not invoked the CA Engine, acquired the lock or written the
\* signing-config.
C5_CaRevokeFailsFirst ==
    \A t \in Threads :
        (op[t] \in {"revoke", "remove"} /\ Id(t) = CA_CERT_ID)
            => /\ pc[t] = "ready"
               /\ ret[t] = "TypeError"
               /\ trace[t] \cap {"engine", "lock", "conf", "crl"} = {}

\* A remove of the CA identity has raised.
C5_Witness ==
    \E t \in Threads :
        op[t] = "remove" /\ Id(t) = CA_CERT_ID /\ ret[t] = "TypeError" /\ Has(CA_CERT_ID, "cert")

\* C6: the step of _revoke that finds no certificate file returns normally
\* (to the caller, or to remove), with no CA Engine invocation, no lock
\* acquired, no CRL regenerated, and every derived file as it was.
C6_NoCertRevokeIsNoOp ==
    [][\A t \in Threads :
         (pc[t] = "rev_isfile" /\ ~Has(Id(t), "cert") /\ pc'[t] # "rev_isfile")
            => /\ files' = files /\ recData' = recData /\ revoked' = revoked
               /\ locks' = locks /\ held' = held
               /\ pc'[t] = (IF op[t] = "remove" THEN "rm_req" ELSE "ready")
               /\ (op[t] = "revoke" => ret'[t] = "ok")
               /\ trace'[t] \cap {"engine", "lock", "conf", "crl"} = {}]_vars

\* A revoke of a user identity without certificate file has returned.
C6_Witness ==
    \E t \in Threads :
        /\ op[t] = "revoke" /\ pc[t] = "ready" /\ ret[t] = "ok"
        /\ "skip" \in trace[t] /\ Id(t) \in UserIds /\ ~Has(Id(t), "cert")

\* C7: once the revoke step of remove has returned normally, remove does not
\* raise, attempts the deletion of each of the five derived files whichever are
\* missing, and ends with none of the five present.
C7_RemoveDeletesAll ==
    \A t \in Threads :
        (op[t] = "remove" /\ trace[t] \cap {"skip", "crl"} # {})
            => /\ pc[t] \in {"rm_req", "rm_conf", "rm_key", "rm_cert", "rm_rec",
                             "rm_notify", "ready"}
               /\ ret[t] \in {"none", "ok"}
               /\ pc[t] = "ready" =>
                    /\ ret[t] = "ok"
                    /\ FileKinds \subseteq trace[t]
                    /\ files[Id(t)] = {}

\* A remove whose revoke ran the CA Engine, and which found no key file, is done.
C7_Witness ==
    \E t \in Threads :
        /\ op[t] = "remove" /\ pc[t] = "ready" /\ ret[t] = "ok"
        /\ {"crl", "no_key", "cert"} \subseteq trace[t] /\ "no_cert" \notin trace[t]

\* C8: rename sets the display name, persists it and emits a notification; it
\* starts no CA Engine invocation, takes no lock, and leaves every certificate
\* and key file, the kind, the OTP secret and the Used-Passcode Record as they
\* were.
C8_RenameFrame ==
    [][\A t \in Threads, n \in Names :
         Rename(t, n)
            => /\ self'[t].name = n
               /\ "rec" \in files'[Id(t)] /\ recData'[Id(t)].name = n
               /\ "event" \in trace'[t]
               /\ pc' = pc /\ locks' = locks /\ held' = held /\ revoked' = revoked
               /\ \A i \in Ids : files'[i] \ {"rec"} = files[i] \ {"rec"}
               /\ self'[t].type = self[t].type /\ self'[t].secret = self[t].secret
               /\ self'[t].id = self[t].id
               /\ \A i \in Ids \ {Id(t)} : recData'[i] = recData[i]
               /\ used' = used /\ otpSecret' = otpSecret]_vars

\* A signed identity has been renamed.
C8_Witness ==
    \E t \in Threads :
        /\ op[t] = "rename" /\ ret[t] = "ok" /\ self[t].name = 2
        /\ recData[Id(t)].name = 2 /\ {"key", "cert", "rec"} \subseteq files[Id(t)]
        /\ self[t].type = CERT_CLIENT /\ self[t].secret = 1

C10_AlreadyRevokedTolerated ==
    \A t \in Threads :
        (op[t] \in {"revoke", "remove"} /\ pc[t] = "ready")
            => /\ "engine_already" \in trace[t] =>
                    /\ ret[t] = "ok"
                    /\ ~Has(Id(t), "conf")
                    /\ \A l \in LockObjs : held[l] = 0
                    /\ "crl" \in trace[t]
               /\ "engine_error" \in trace[t] => ret[t] = "CalledProcessError"

\* The second of two revokes in sequence of a signed identity has succeeded on
\* the engine's 'already revoked'.
C10_Witness ==
    \E t \in Threads :
        /\ op[t] = "revoke" /\ pc[t] = "ready" /\ ret[t] = "ok"
        /\ "engine_already" \in trace[t] /\ Id(t) \in revoked /\ Has(Id(t), "cert")

\* C11: when the CA Engine has exited non-zero in the signing-request step,
\* the next step of the call leaves initialize with an exception, and the call
\* has started no signing invocation, generated no OTP secret, committed no
\* record, and emitted no audit entry or notification; when it exits non-zero
\* in the signing step, initialize raises CalledProcessError with no audit
\* entry or notification emitted.
C11_EngineFailureFatal ==
    [][\A t \in Threads :
         /\ ReqEngine(t, 1)
               => /\ pc'[t] = "req_release" /\ exc'[t] = "CalledProcessError"
                  /\ files' = files /\ recData' = recData /\ trace' = trace
         /\ (pc[t] = "req_release" /\ exc[t] = "CalledProcessError" /\ pc'[t] # pc[t])
               => /\ pc'[t] = "idle"
                  /\ ret'[t] \in {"CalledProcessError", "ThreadError"}
                  /\ trace'[t] \cap {"otp", "commit", "log", "event"} = {}
                  /\ recData' = recData /\ files' = files
         /\ SignEngine(t, 1)
               => /\ pc'[t] = "idle"
                  /\ ret'[t] = "CalledProcessError"
                  /\ trace'[t] \cap {"log", "event"} = {}
                  /\ files' = files]_vars

\* One initialize of the CA identity has failed in the request step (nothing
\* committed), and another one in the signing step (after the commit).
C11_Witness ==
    \E t, u \in Threads :
        /\ op[t] = "new" /\ pc[t] = "idle" /\ ret[t] = "CalledProcessError"
        /\ {"lock", "engine"} \subseteq trace[t] /\ "commit" \notin trace[t]
        /\ op[u] = "new" /\ pc[u] = "idle" /\ ret[u] = "CalledProcessError"
        /\ "commit" \in trace[u] /\ "event" \notin trace[u]

\* The tags of the pieces of a profile text.
Tags(text) == {text[j].tag : j \in DOMAIN text}

\* C12: when build_key_archive has returned in inline mode, the archive has
\* exactly one member per server of the organization, in order, each a profile
\* holding a <ca> block of that server's CA certificate and a <cert> and a
\* <key> block of the identity, and holding the auth-user-pass directive if and
\* only if that server requires second-factor auth.
C12_InlineArchive ==
    (aret = "ok" /\ inlineCerts) =>
        /\ Len(archive) = Len(servers)
        /\ \A k \in DOMAIN archive :
              /\ archive[k].kind = "ovpn"
              /\ archive[k].server = servers[k].name
              /\ {Piece("<ca>", k), Piece("<cert>", auser), Piece("<key>", auser)}
                    \subseteq {archive[k].text[j] : j \in DOMAIN archive[k].text}
              /\ ("auth-user-pass" \in Tags(archive[k].text)) <=> servers[k].otp

\* An inline archive of two servers, the first requiring second-factor auth
\* and the second not, has been built.
C12_Witness ==
    /\ aret = "ok" /\ inlineCerts /\ auser = 1
    /\ Len(servers) = 2 /\ servers[1].otp /\ ~servers[2].otp
    /\ Len(archive) = 2
    /\ "auth-user-pass" \in Tags(archive[1].text)
    /\ "auth-user-pass" \notin Tags(archive[2].text)

\* C13: in initialize the record is persisted only after the CA Engine has
\* signed the certificate: whenever a call of initialize has committed the
\* record, its signing step has completed successfully (the call is at the
\* deletion of the signing-config, at the notifications, or has returned).
C13_PersistAfterSigning ==
    \A t \in Threads :
        (op[t] = "new" /\ "commit" \in trace[t])
            => pc[t] \in {"init_delconf", "init_notify", "ready"}

\* An initialize or a revoke of identity i is in progress.
InitOrRevokeInProgress(i) ==
    \E t \in Threads :
        /\ Id(t) = i
        /\ \/ op[t] = "new" /\ pc[t] \notin {"idle", "ready"}
           \/ pc[t] \in {"rev_isfile", "rev_lookup", "rev_acquire", "rev_conf",
                         "rev_engine", "rev_delconf", "rev_release", "rev_crl"}

\* C14: in every state where no initialize or revoke is in progress for an
\* identity, its temporary signing-config file does not exist, whatever the
\* outcome of the CA Engine was.
C14_NoConfAtRest ==
    \A i \in Ids : ~InitOrRevokeInProgress(i) => ~Has(i, "conf")

\* C15: a submission that matches a window candidate is rejected only when an
\* entry of the Used-Passcode Record used at most 120 seconds ago holds its
\* code (an older entry is pruned and does not reject it), and after an
\* accepting call the record holds no entry older than 120 seconds. (Stated
\* for calls that run within one time window.)
C15_OnlySurvivingEntriesReject ==
    [][\A p \in Threads :
         /\ (/\ vloc[p].epoch = Epoch(now)
             /\ \E hit \in DOMAIN vloc[p].snap, before \in SUBSET (DOMAIN vloc[p].snap) :
                   VerifyReject(p, hit, before))
               => \E k \in DOMAIN vloc[p].snap :
                     vloc[p].snap[k] = vloc[p].code /\ ~Expired(now, k)
         /\ VerifyAccept(p) => \A k \in DOMAIN used' : ~Expired(now, k)]_vars

\* C16: after generate_otp_secret the identity's Used-Passcode Record is
\* empty: no entry survives the regeneration of the secret.
C16_RegenerationClearsRecord ==
    [][GenerateOtpSecret => used' = <<>>]_vars

\* C17: of two verify_otp_code calls in progress at once in two processes
\* with the same valid code, at most one returns True: when one of them
\* accepts, the other has read an entry holding the code and so rejects.
C17_ConcurrentAcceptOnce ==
    [][\A p, q \in Threads :
         (/\ p # q
          /\ vpc[q] = "loop"
          /\ vloc[q].code = vloc[p].code
          /\ VerifyAccept(p))
            => \E k \in DOMAIN vloc[q].snap : vloc[q].snap[k] = vloc[q].code]_vars

\* C18: the Identity Lock Table never replaces a lock it holds under an id,
\* and a release targets the lock object the releasing thread holds (never one
\* that another thread holds or that is unlocked).
C18_LockNeverReplaced ==
    [][/\ \A k \in Ids : locks[k] # 0 => locks'[k] = locks[k]
       /\ \A t \in Threads :
            (pc[t] \in {"req_release", "rev_release"} /\ pc'[t] # pc[t])
                => held[Lookup(Id(t))] = t]_vars

\* Threads t and u are both in (or through) a remove of the same user identity.
BothRemove(t, u) ==
    t # u /\ op[t] = "remove" /\ op[u] = "remove" /\ Id(t) = Id(u) /\ Id(t) \in UserIds

\* C19: when two threads call remove concurrently on the same signed non-CA
\* identity, neither revoke has the CA Engine running on a certificate file
\* that is no longer there, a call whose CA Engine invocation did not fail has
\* not raised, and when both have returned normally the identity has no
\* derived file.
C19_ConcurrentRemove ==
    \A t, u \in Threads :
        BothRemove(t, u) =>
            /\ pc[t] = "rev_engine" => Has(Id(t), "cert")
            /\ (pc[t] = "ready" /\ "engine_error" \notin trace[t]) => ret[t] = "ok"
            /\ (pc[t] = "ready" /\ pc[u] = "ready" /\ ret[t] = "ok" /\ ret[u] = "ok")
                  => files[Id(t)] = {}

\* Thread t is between the acquire and the release of lock object l (the
\* request step of initialize, or revoke, with its CA Engine invocation).
InLockedRegion(t, l) ==
    /\ pc[t] \in {"req_engine", "req_release", "rev_conf", "rev_engine",
                  "rev_delconf", "rev_release"}
    /\ lk[t] = l

\* C20: the identity lock is released on every path out of the request step
\* and out of revoke: a lock object is held only by a thread that is inside
\* that step (so a thread waiting for it acquires it once the step ends; a
\* lock object left held after the step blocks every later acquire of it for
\* ever).
C20_LockReleasedOnEveryPath ==
    \A l \in LockObjs : held[l] # 0 => InLockedRegion(held[l], l)

====
